---- MODULE Spec2Model ----
(***************************************************************************)
(* A model of the analysis core of the geometric audio visualizer:         *)
(* AudioEngine (the source of the two byte buffers), AudioAnalyzer (the    *)
(* feature extraction of src/src/audio/AudioEngine.js) and the part of App *)
(* (src/src/main.js) that drives them.                                     *)
(*                                                                         *)
(* Arithmetic.  JavaScript numbers are modelled exactly where the code's   *)
(* arithmetic is exact on its inputs, and as exact reals otherwise:        *)
(*   - a number is NaN, +/-Infinity, or (n/d) * sqrt(rn/rd) with n/d and   *)
(*     rn/rd reduced fractions, so that Math.sqrt needs no rounding;       *)
(*   - Math.log2 is computed to FracBits fractional bits (truncated).      *)
(* Division follows IEEE 754: 0/0 is NaN and x/0 is an infinity.           *)
(***************************************************************************)
EXTENDS Integers, Sequences, FiniteSets, TLC

(***************************************************************************)
(* Bounds of the model and the program's constants.                        *)
(***************************************************************************)
\* Largest number of spectrum bins (analyser.frequencyBinCount) of a session.
MaxBins == 3
\* Fractional bits kept by the model of Math.log2.
FracBits == 12
\* Largest factor p and divisor q of the gains p/q tried on a spectrum.
MaxScale == 3

\* Magnitudes a spectrum bin takes in the model (a byte, 0..255).
SpecVals == {0, 20}
\* Waveform buffer lengths (analyser.fftSize) of a session.
WaveLens == {0, 20}
\* Waveform shapes: `half` samples at `hi`, then `half` samples at `lo`, repeated.
WaveShapes == { [half |-> 1, hi |-> 128, lo |-> 128],
                [half |-> 5, hi |-> 255, lo |-> 0] }
\* Sample rates of the audio context.
SampleRates == {8000, 44100}

\* Largest number of bins of a spectrum held still for the feature getters.
MaxFeatureBins == 4
\* Magnitudes of a bin of such a spectrum.
FeatureVals == {0, 1, 20, 100}
\* Lengths and shapes of the waveforms held still for the feature getters:
\* silence, a constant offset, square waves, a step at the window boundary.
FeatureWaveLens == {0, 20, 128, 192}
FeatureWaveShapes == { [half |-> 1,  hi |-> 128, lo |-> 128],
                       [half |-> 1,  hi |-> 255, lo |-> 255],
                       [half |-> 5,  hi |-> 255, lo |-> 0],
                       [half |-> 9,  hi |-> 255, lo |-> 0],
                       [half |-> 64, hi |-> 128, lo |-> 255] }
\* Sample rates of the audio context in those sessions.
FeatureRates == {8000, 44100, 48000}

\* Most addPoint calls on a ToneEvolution between two clear calls.
MaxAddPoints == 510
\* Most records of getAllFeatures a caller keeps at a time.
MaxHeld == 2
\* Most App.loadFile calls of a session.
MaxLoads == 2
\* Most AudioProvider.loadFile calls of a session.
MaxProviderLoads == 2
\* The length of a file loaded into AudioProvider, in steps of playback.
MediaLength == 2
\* The durations, in seconds, of the files a user loads.
FileDurations == {30, 60}

\* getSampleRate's value while there is no audio context.
DefaultSampleRate == 44100
\* ToneEvolution's trail and particle capacities.
maxPoints == 500
maxParticles == 200
\* The centre value of a time-domain byte, and its normalisation divisor.
Centre == 128
\* getAmplitudeModulation's window and its scale constant.
WindowSize == 64
AMScale == 64
\* getFrequencyModulation's divisor of the flux.
FMScale == 10
\* getTonality's peak threshold and scale factor.
PeakThreshold == 10
TonalityScale == 3
\* getPitch's frequency ceiling and floor.
MaxPitchHz == 1000
MinPitchHz == 50
\* The sizes of the mel filterbank and of the coefficient vector.
numMelFilters == 26
numMFCCs == 13

(***************************************************************************)
(* Integer helpers.                                                        *)
(***************************************************************************)
Abs(x) == IF x < 0 THEN -x ELSE x

Max2(a, b) == IF a > b THEN a ELSE b

Min2(a, b) == IF a < b THEN a ELSE b

RECURSIVE Gcd(_, _)
Gcd(a, b) == IF b = 0 THEN a ELSE Gcd(b, a % b)

RECURSIVE Pow2(_)
Pow2(e) == IF e = 0 THEN 1 ELSE 2 * Pow2(e - 1)

\* The sum of s[lo..hi], by halving (the nesting stays logarithmic).
RECURSIVE SumRange(_, _, _)
SumRange(s, lo, hi) ==
    IF lo > hi THEN 0
    ELSE IF lo = hi THEN s[lo]
    ELSE LET mid == (lo + hi) \div 2
         IN  SumRange(s, lo, mid) + SumRange(s, mid + 1, hi)

SeqSum(s) == SumRange(s, 1, Len(s))

(***************************************************************************)
(* JavaScript numbers.                                                     *)
(***************************************************************************)
NaN == [k |-> "nan", n |-> 0, d |-> 1, rn |-> 1, rd |-> 1]

Infinity == [k |-> "inf", n |-> 1, d |-> 1, rn |-> 1, rd |-> 1]

NegInfinity == [k |-> "inf", n |-> -1, d |-> 1, rn |-> 1, rd |-> 1]

\* The rational n/d, d > 0, reduced.
Num(n, d) ==
    LET g == Gcd(Abs(n), d)
    IN  [k |-> "num", n |-> n \div g, d |-> d \div g, rn |-> 1, rd |-> 1]

Zero == Num(0, 1)

One == Num(1, 1)

IsNaN(x) == x.k = "nan"

IsFinite(x) == x.k = "num"

IsZero(x) == x.k = "num" /\ x.n = 0

Sign(x) == IF x.n > 0 THEN 1 ELSE IF x.n < 0 THEN -1 ELSE 0

\* x / y for a rational y; x may carry a square root.
NumDiv(x, y) ==
    IF IsNaN(x) \/ IsNaN(y) THEN NaN
    ELSE IF y.k = "inf" THEN (IF x.k = "inf" THEN NaN ELSE Zero)
    ELSE IF x.k = "inf" THEN (IF Sign(x) * Sign(y) < 0 THEN NegInfinity ELSE Infinity)
    ELSE IF y.n = 0 THEN (IF x.n = 0 THEN NaN
                          ELSE IF x.n < 0 THEN NegInfinity ELSE Infinity)
    ELSE IF x.n = 0 THEN Zero
    ELSE LET n == x.n * y.d * Sign(y)
             d == x.d * Abs(y.n)
             g == Gcd(Abs(n), d)
         IN  [k |-> "num", n |-> n \div g, d |-> d \div g, rn |-> x.rn, rd |-> x.rd]

\* x * y for rationals.
NumMul(x, y) ==
    IF IsNaN(x) \/ IsNaN(y) THEN NaN
    ELSE IF x.k = "inf" \/ y.k = "inf"
         THEN (IF Sign(x) * Sign(y) = 0 THEN NaN
               ELSE IF Sign(x) * Sign(y) < 0 THEN NegInfinity ELSE Infinity)
    ELSE Num(x.n * y.n, x.d * y.d)

\* x + y for rationals.
NumAdd(x, y) ==
    IF IsNaN(x) \/ IsNaN(y) THEN NaN
    ELSE IF x.k = "inf" /\ y.k = "inf" THEN (IF x.n = y.n THEN x ELSE NaN)
    ELSE IF x.k = "inf" THEN x
    ELSE IF y.k = "inf" THEN y
    ELSE Num(x.n * y.d + y.n * x.d, x.d * y.d)

\* Math.max(0, x).
Max0(x) == IF IsNaN(x) THEN NaN ELSE IF x.n < 0 THEN Zero ELSE x

\* The sum of the numbers s[lo..hi], by halving.
RECURSIVE NumSumRange(_, _, _)
NumSumRange(s, lo, hi) ==
    IF lo > hi THEN Zero
    ELSE IF lo = hi THEN s[lo]
    ELSE LET mid == (lo + hi) \div 2
         IN  NumAdd(NumSumRange(s, lo, mid), NumSumRange(s, mid + 1, hi))

\* Math.sqrt of a rational.
NumSqrt(x) ==
    IF IsNaN(x) THEN NaN
    ELSE IF x.k = "inf" THEN (IF x.n < 0 THEN NaN ELSE Infinity)
    ELSE IF x.n < 0 THEN NaN
    ELSE IF x.n = 0 THEN Zero
    ELSE [k |-> "num", n |-> 1, d |-> 1, rn |-> x.n, rd |-> x.d]

\* x > 1, for a finite x >= 0: (n/d)^2 * rn/rd > 1.
GreaterThanOne(x) == x.n * x.n * x.rn > x.d * x.d * x.rd

\* Math.min(1, x).
Min1(x) ==
    IF IsNaN(x) THEN NaN
    ELSE IF x.k = "inf" THEN (IF x.n < 0 THEN x ELSE One)
    ELSE IF x.n > 0 /\ GreaterThanOne(x) THEN One
    ELSE x

\* 0 <= x <= 1.
InUnitInterval(x) == IsFinite(x) /\ x.n >= 0 /\ ~GreaterThanOne(x)

(***************************************************************************)
(* Math.log2, to FracBits fractional bits.                                 *)
(***************************************************************************)
FxOne == Pow2(FracBits)

\* floor(log2 n), n >= 1.
RECURSIVE ILog2(_)
ILog2(n) == IF n < 2 THEN 0 ELSE 1 + ILog2(n \div 2)

\* The fractional bits of log2(y / FxOne), FxOne <= y < 2 * FxOne, by squaring.
RECURSIVE Log2Frac(_, _)
Log2Frac(y, bits) ==
    IF bits = 0 THEN 0
    ELSE LET sq == (y * y) \div FxOne
         IN  IF sq >= 2 * FxOne
             THEN Pow2(bits - 1) + Log2Frac(sq \div 2, bits - 1)
             ELSE Log2Frac(sq, bits - 1)

\* floor-ish FxOne * log2(n), n >= 1; exact on the powers of two.
Log2Fx(n) ==
    LET e == ILog2(n)
        y == IF e >= FracBits THEN n \div Pow2(e - FracBits)
                              ELSE n * Pow2(FracBits - e)
    IN  e * FxOne + Log2Frac(y, FracBits)

(***************************************************************************)
(* Buffers.  A byte buffer is a sequence over 0..255; JavaScript's index i *)
(* is the sequence's index i + 1.  A buffer the engine has not allocated   *)
(* yet is null, which the model writes NullBuffer.                         *)
(***************************************************************************)
NullBuffer == [null |-> TRUE, data |-> << >>]

Buffer(bytes) == [null |-> FALSE, data |-> bytes]

\* The code's test `!buffer || buffer.length === 0`.
Absent(buf) == buf.null \/ Len(buf.data) = 0

\* The spectra and the waveforms the analyser node can deliver.
Spectra(binCount) == [1..binCount -> SpecVals]

MakeWave(len, shape) ==
    [i \in 1..len |-> IF ((i - 1) \div shape.half) % 2 = 0 THEN shape.hi ELSE shape.lo]

Waves(len) == {MakeWave(len, shape) : shape \in WaveShapes}

(***************************************************************************)
(* AudioAnalyzer: the features of the time-domain buffer.                  *)
(***************************************************************************)
\* Sum of (timeDomain[i] - 128)^2: 128^2 times the code's `sum`.
SumOfSquares(td) == SeqSum([i \in 1..Len(td) |-> (td[i] - Centre) * (td[i] - Centre)])

\* getRMS without the division by the length: the root of the sum of squares.
RootOfSquareSum(timeDomain) ==
    IF Absent(timeDomain) THEN Zero
    ELSE NumSqrt(Num(SumOfSquares(timeDomain.data), Centre * Centre))

getRMS(timeDomain) ==
    IF Absent(timeDomain) THEN Zero
    ELSE LET td  == timeDomain.data
             sum == Num(SumOfSquares(td), Centre * Centre)
         IN  NumSqrt(NumDiv(sum, Num(Len(td), 1)))

\* The largest |td[i] - 128| of td[lo..hi], starting from `max`.
MaxDeviation(td, lo, hi) ==
    LET devs == {Abs(td[i] - Centre) : i \in lo..hi}
    IN  CHOOSE m \in devs \cup {0} : \A x \in devs : x <= m

getPeak(timeDomain) ==
    IF Absent(timeDomain) THEN Zero
    ELSE LET td == timeDomain.data
         IN  Num(MaxDeviation(td, 1, Len(td)), Centre)

\* 128^2 times the code's `correlation` for one period: the products of the
\* Float32 samples (x - 128) / 128 are exact, and so is their sum.
Correlation(td, period) ==
    SeqSum([i \in 1..(Len(td) - period) |->
                (td[i] - Centre) * (td[i + period] - Centre)])

\* The periods the loop of getPitch visits.
CandidatePeriods(bufferSize, sampleRate) ==
    LET minPeriod == sampleRate \div MaxPitchHz
        maxPeriod == sampleRate \div MinPitchHz
    IN  {p \in minPeriod..Max2(minPeriod, bufferSize) :
            p < maxPeriod /\ 2 * p < bufferSize}

\* The loop keeps the first period whose correlation exceeds every earlier
\* one and 0: the least period of maximal correlation, when that is positive.
\* The loop with bestCorrelation starting below every correlation instead of
\* at 0: the least period of maximal correlation, whatever its sign.
BestPeriodOfAnySign(td, sampleRate) ==
    LET periods == CandidatePeriods(Len(td), sampleRate)
        corr    == [p \in periods |-> Correlation(td, p)]
        best    == {p \in periods : \A q \in periods : corr[q] <= corr[p]}
    IN  IF best = {} THEN 0 ELSE CHOOSE p \in best : \A q \in best : p <= q

BestPeriod(td, sampleRate) ==
    LET periods == CandidatePeriods(Len(td), sampleRate)
        corr    == [p \in periods |-> Correlation(td, p)]
        best    == {p \in periods : corr[p] > 0 /\ \A q \in periods : corr[q] <= corr[p]}
    IN  IF best = {} THEN 0 ELSE CHOOSE p \in best : \A q \in best : p <= q

getPitch(timeDomain, sampleRate) ==
    IF Absent(timeDomain) THEN Zero
    ELSE LET bestPeriod == BestPeriod(timeDomain.data, sampleRate)
         IN  IF bestPeriod > 0 THEN Num(sampleRate, bestPeriod) ELSE Zero

\* The envelope: one sample per window the loop `i < length - windowSize` visits.
Envelopes(td) ==
    LET count == IF Len(td) <= WindowSize THEN 0 ELSE (Len(td) - 1) \div WindowSize
    IN  [w \in 1..count |->
            MaxDeviation(td, (w - 1) * WindowSize + 1, w * WindowSize)]

getAmplitudeModulation(timeDomain) ==
    IF Absent(timeDomain) THEN Zero
    ELSE LET envelopes == Envelopes(timeDomain.data)
             len       == Len(envelopes)
         IN  IF len < 2 THEN Zero
             ELSE LET total  == SeqSum(envelopes)
                      \* sum of (val - mean)^2, times len^2
                      sqDevs == SeqSum([w \in 1..len |->
                                   (len * envelopes[w] - total) * (len * envelopes[w] - total)])
                      variance == Num(sqDevs, len * len * len)
                  IN  Min1(NumDiv(NumSqrt(variance), Num(AMScale, 1)))

(***************************************************************************)
(* AudioAnalyzer: the features of the spectrum.                            *)
(***************************************************************************)
\* The code's `sum`: the total magnitude.
TotalMagnitude(s) == SeqSum(s)

\* The bins weighted by i + 1 instead of i.
WeightedBinsOneBased(s) == SeqSum([i \in 1..Len(s) |-> i * s[i]])

\* The sum of i * spectrum[i] over the bins i = 0..N-1.
WeightedBins(s) == SeqSum([i \in 1..Len(s) |-> (i - 1) * s[i]])

FreqPerBin(binCount, sampleRate) == Num(sampleRate, binCount * 2)

\* The weighted sum divided by the bin count instead of the total magnitude.
CentroidOverBinCount(spectrum, sampleRate) ==
    IF Absent(spectrum) THEN Zero
    ELSE LET s           == spectrum.data
             freqPerBin  == FreqPerBin(Len(s), sampleRate)
             weightedSum == NumMul(freqPerBin, Num(WeightedBins(s), 1))
         IN  IF TotalMagnitude(s) > 0 THEN NumDiv(weightedSum, Num(Len(s), 1)) ELSE Zero

getSpectralCentroid(spectrum, sampleRate) ==
    IF Absent(spectrum) THEN Zero
    ELSE LET s           == spectrum.data
             freqPerBin  == FreqPerBin(Len(s), sampleRate)
             \* the sum of magnitude * (i * freqPerBin)
             weightedSum == NumMul(freqPerBin, Num(WeightedBins(s), 1))
             sum         == TotalMagnitude(s)
         IN  IF sum > 0 THEN NumDiv(weightedSum, Num(sum, 1)) ELSE Zero

\* sum of magnitude * (i - centroid/freqPerBin)^2 over the sum of magnitudes:
\* the code's weightedVariance / sum with freqPerBin^2 taken out of the sum.
\* With W = WeightedBins and M = TotalMagnitude the centroid is bin W/M.
BinVariance(s) ==
    LET M == TotalMagnitude(s)
        W == WeightedBins(s)
    IN  Num(SeqSum([i \in 1..Len(s) |-> s[i] * ((i - 1) * M - W) * ((i - 1) * M - W)]),
            M * M * M)

getSpectralSpread(spectrum, sampleRate) ==
    IF Absent(spectrum) THEN Zero
    ELSE LET s          == spectrum.data
             freqPerBin == FreqPerBin(Len(s), sampleRate)
             sum        == TotalMagnitude(s)
         IN  IF sum > 0
             THEN LET root == NumSqrt(BinVariance(s))
                  IN  IF IsZero(root) THEN Zero
                      ELSE [root EXCEPT !.n = freqPerBin.n, !.d = freqPerBin.d]
             ELSE Zero

\* FxOne * Math.log2(p) of a fraction p = n/d in lowest terms.
Log2FxOf(p) == Log2Fx(p.n) - Log2Fx(p.d)

\* FxOne * (the code's `entropy`): each bin adds -p * log2(p), with
\* p = (spectrum[i] + 1) / sum, which is never 0.
EntropyFx(s, sum) ==
    LET p == [i \in 1..Len(s) |-> Num(s[i] + 1, sum)]
        \* the terms over the common denominator sum
        terms == [i \in 1..Len(s) |-> (s[i] + 1) * (0 - Log2FxOf(p[i]))]
    IN  Num(SeqSum(terms), sum)

\* The entropy of the magnitudes themselves, without the + 1 of every bin.
EntropyWithoutSmoothing(spectrum) ==
    IF Absent(spectrum) THEN Zero
    ELSE LET s   == spectrum.data
             sum == SeqSum(s)
         IN  IF sum = 0 THEN Zero
             ELSE NumDiv(Num(SeqSum([i \in 1..Len(s) |->
                                 IF s[i] > 0 THEN s[i] * (0 - Log2FxOf(Num(s[i], sum)))
                                 ELSE 0]), sum),
                         Num(Log2Fx(Len(s)), 1))

getSpectralEntropy(spectrum) ==
    IF Absent(spectrum) THEN Zero
    ELSE LET s   == spectrum.data
             sum == SeqSum([i \in 1..Len(s) |-> s[i] + 1])
         IN  IF sum = 0 THEN Zero
             ELSE LET entropy    == EntropyFx(s, sum)
                      maxEntropy == Num(Log2Fx(Len(s)), 1)
                  IN  NumDiv(entropy, maxEntropy)

\* The bins the loop `i = 1 .. length - 2` visits, as sequence indices.
InnerBins(s) == 2..(Len(s) - 1)

IsLocalPeak(s, i) == s[i] > s[i - 1] /\ s[i] > s[i + 1] /\ s[i] > PeakThreshold

getTonality(spectrum) ==
    IF Absent(spectrum) THEN Zero
    ELSE LET s           == spectrum.data
             totalEnergy == SeqSum([i \in 1..Len(s) |-> IF i \in InnerBins(s) THEN s[i] ELSE 0])
             peakEnergy  == SeqSum([i \in 1..Len(s) |->
                                IF i \in InnerBins(s) /\ IsLocalPeak(s, i) THEN s[i] ELSE 0])
         IN  IF totalEnergy > 0
             THEN Min1(NumMul(NumDiv(Num(peakEnergy, 1), Num(totalEnergy, 1)),
                              Num(TonalityScale, 1)))
             ELSE Zero

(***************************************************************************)
(* AudioAnalyzer: the cepstral coefficients.  Math.log10, Math.pow and     *)
(* Math.log go through Math.log2 (to FracBits bits); Math.cos is a table.  *)
(***************************************************************************)
\* floor(melToFreq(t * melStep) / maxFreq * binCount), binCount >= 1, for the
\* t-th of the numMelFilters + 2 mel points.  With R = 1 + maxFreq / 700 the
\* point's frequency is 700 * (R^(t / (numMelFilters + 1)) - 1), so bin b is
\* reached when (numMelFilters + 1) * log(1 + b * maxFreq / (700 * binCount))
\* is at most t * log(R); maxFreq is sampleRate / 2.
MelBin(t, binCount, sampleRate) ==
    LET logR == Log2FxOf(Num(1400 + sampleRate, 1400))
        Reached(b) ==
            (numMelFilters + 1)
              * Log2FxOf(Num(1400 * binCount + b * sampleRate, 1400 * binCount))
            <= t * logR
    IN  CHOOSE b \in 0..binCount : Reached(b) /\ (b = binCount \/ ~Reached(b + 1))

\* The weight of bin j in the triangle lowBin, centerBin, highBin.
\* The rising side applied up to and including the centre bin.
TriangleWeightRisingAtCentre(j, lowBin, centerBin, highBin) ==
    IF j <= centerBin
    THEN NumDiv(Num(j - lowBin, 1), Num(centerBin - lowBin, 1))
    ELSE NumDiv(Num(highBin - j, 1), Num(highBin - centerBin, 1))

TriangleWeight(j, lowBin, centerBin, highBin) ==
    IF j < centerBin
    THEN NumDiv(Num(j - lowBin, 1), Num(centerBin - lowBin, 1))
    ELSE NumDiv(Num(highBin - j, 1), Num(highBin - centerBin, 1))

\* One filter's output: the loop `j = lowBin; j < highBin && j < binCount`.
MelFilter(s, lowBin, centerBin, highBin) ==
    LET last  == Min2(highBin, Len(s)) - 1
        terms == [j \in lowBin..last |->
                     NumMul(Num(s[j + 1], 1),
                            Max0(TriangleWeight(j, lowBin, centerBin, highBin)))]
    IN  NumSumRange(terms, lowBin, last)

\* The bins of the numMelFilters + 2 mel points, which depend on the bin count
\* and the sample rate only, for every bin count and rate of the model
\* (`\o << >>` and `@@ << >>` make the tuples and the table explicit values).
MelBinsOf ==
    [binCount \in 1..Max2(MaxBins, MaxFeatureBins),
     sampleRate \in SampleRates \cup FeatureRates \cup {DefaultSampleRate} |->
        [t \in 1..(numMelFilters + 2) |-> MelBin(t - 1, binCount, sampleRate)] \o << >>]
    @@ << >>

\* _applyMelFilterbank: the outputs of the filters i = 0 .. numMelFilters - 1.
applyMelFilterbank(s, sampleRate) ==
    \* bin[t + 1] is the bin of mel point t
    LET bin == MelBinsOf[Len(s), sampleRate]
    IN  [f \in 1..numMelFilters |-> MelFilter(s, bin[f], bin[f + 1], bin[f + 2])] \o << >>

\* FxOne * Math.log(2).
Ln2Fx == (45426 * FxOne) \div 65536

\* Math.log(val + 1), for val >= 0.
LogCompress(val) ==
    IF IsNaN(val) THEN NaN
    ELSE IF val.k = "inf" THEN Infinity
    ELSE Num((Log2FxOf(NumAdd(val, One)) * Ln2Fx) \div FxOne, FxOne)

\* 4096 * cos(j * pi / 52), j = 0..26.
CosQuarter ==
    << 4096, 4089, 4066, 4029, 3977, 3911, 3830, 3735, 3627, 3505, 3371, 3224,
       3066, 2896, 2716, 2526, 2327, 2119, 1904, 1681, 1452, 1219, 980, 738,
       494, 247, 0 >>

\* 4096 * cos(m * pi / 52).
CosFx(m) ==
    LET r == m % 104
    IN  IF r <= 26 THEN CosQuarter[r + 1]
        ELSE IF r <= 52 THEN 0 - CosQuarter[52 - r + 1]
        ELSE IF r <= 78 THEN 0 - CosQuarter[r - 52 + 1]
        ELSE CosQuarter[104 - r + 1]

\* _dct: output[k] = sum of input[n] * cos(pi * k * (n + 0.5) / N), N = 26.
dct(input, numCoeffs) ==
    [c \in 1..numCoeffs |->
        IF \E n \in 1..Len(input) : ~IsFinite(input[n]) THEN NaN
        ELSE Num(SeqSum([n \in 1..Len(input) |->
                            (input[n].n * (FxOne \div input[n].d))
                              * CosFx((c - 1) * (2 * (n - 1) + 1))]) \div 4096,
                 FxOne)] \o << >>

getMFCCs(spectrum, sampleRate) ==
    IF Absent(spectrum) THEN [c \in 1..numMFCCs |-> Zero]
    ELSE LET melSpectrum    == applyMelFilterbank(spectrum.data, sampleRate)
             logMelSpectrum == [f \in 1..numMelFilters |-> LogCompress(melSpectrum[f])] \o << >>
         IN  dct(logMelSpectrum, numMFCCs)

(***************************************************************************)
(* The state.                                                              *)
(***************************************************************************)
VARIABLES
    inited,          \* AudioEngine: audioContext and analyser exist
    ctxSampleRate,   \* AudioEngine: audioContext.sampleRate
    frequencyData,   \* AudioEngine: the reused Uint8Array of magnitudes
    timeDomainData,  \* AudioEngine: the reused Uint8Array of samples
    hasMedia,        \* AudioEngine: mediaElement exists
    prevSpectrum,    \* AudioAnalyzer: the flux baseline
    lastOp,          \* the operation that ran last
    result,          \* what it returned
    streak,          \* consecutive getAllFeatures calls so far, counted to 2
    toneEvolution,   \* ToneEvolution: pointIndex, particleIndex, time, the
                     \* trail's vertices written and the trail's draw range
    arrays,          \* the Float32Arrays handed out as mfccs, by address
    records,         \* the records getAllFeatures handed out, by address
    held,            \* the records a caller keeps, as references
    engine,          \* AudioEngine: mediaElement, source, isPlaying, duration
    elements,        \* the media elements AudioEngine.loadFile created
    calls,           \* the async calls of App and AudioEngine that await
    app,             \* App: isPlaying, animationId
    frames,          \* the callbacks requestAnimationFrame holds for the App
    provider,        \* AudioProvider: its state and refs
    media,           \* the media elements AudioProvider.loadFile created
    tasks            \* AudioProvider: async calls that await, events queued

analyzerVars == << inited, ctxSampleRate, frequencyData, timeDomainData, hasMedia,
                   prevSpectrum, result, streak >>

\* What the specifications of the analyzer leave as constructed.
recordVars == << arrays, records, held >>

playbackVars == << engine, elements, calls, app, frames >>

providerVars == << provider, media, tasks >>

sceneVars == << toneEvolution, recordVars, playbackVars, providerVars >>

vars == << analyzerVars, lastOp, sceneVars >>

engineVars == << inited, ctxSampleRate, hasMedia >>

(***************************************************************************)
(* ToneEvolution's constructor: an empty trail of maxPoints vertices.  The *)
(* geometry's draw range is the library's default, all of the buffer.      *)
(***************************************************************************)
ToneInit ==
    toneEvolution = [pointIndex    |-> 0,
                     particleIndex |-> 0,
                     time          |-> 0,
                     trail         |-> {},
                     drawRange     |-> [start |-> 0, count |-> Infinity]]

\* No record has been handed out.
RecordInit ==
    /\ arrays = << >>
    /\ records = << >>
    /\ held = << >>

(***************************************************************************)
(* `new AudioEngine()` and `new App()`, for playback: no media element     *)
(* (written 0), no source, nothing awaited, no animation frame requested.  *)
(***************************************************************************)
PlaybackInit ==
    /\ engine = [mediaElement |-> 0,
                 source       |-> 0,
                 connected    |-> FALSE,
                 isPlaying    |-> FALSE,
                 duration     |-> Zero]
    /\ elements = << >>
    /\ calls = {}
    /\ app = [isPlaying |-> FALSE, animationId |-> 0]
    /\ frames = {}

(***************************************************************************)
(* AudioProvider's first render: no file, no media element.                *)
(***************************************************************************)
ProviderInit ==
    /\ provider = [file         |-> 0,
                   isPlaying    |-> FALSE,
                   currentTime  |-> 0,
                   duration     |-> 0,
                   mediaElement |-> 0,
                   source       |-> 0]
    /\ media = << >>
    /\ tasks = {}

\* The App's constructor, for what the analyzer does not touch.
SceneInit == ToneInit /\ RecordInit /\ PlaybackInit /\ ProviderInit

(***************************************************************************)
(* AudioEngine.                                                            *)
(***************************************************************************)
\* getSampleRate
getSampleRate == IF inited THEN ctxSampleRate ELSE DefaultSampleRate

\* getFrequencyData: the analyser, when there is one, overwrites the reused
\* buffer in place with the magnitudes `bytes` of the moment.
getFrequencyData(bytes) == IF inited THEN Buffer(bytes) ELSE frequencyData

\* getTimeDomainData, likewise.
getTimeDomainData(bytes) == IF inited THEN Buffer(bytes) ELSE timeDomainData

\* What the analyser can deliver into the two buffers.
FreshSpectra == Spectra(Len(frequencyData.data))

FreshWaves == Waves(Len(timeDomainData.data))

(***************************************************************************)
(* AudioAnalyzer: the flux and its baseline.  prevSpectrum is null, or a   *)
(* typed array: one of its own (`data`), or the engine's buffer (`alias`). *)
(***************************************************************************)
NullSpectrum == [null |-> TRUE, alias |-> FALSE, data |-> << >>]

\* A reference to the engine's buffer itself, not a copy.
AliasOfBuffer(buf) == [null |-> FALSE, alias |-> TRUE, data |-> << >>]

\* new Uint8Array(spectrum): a copy of the buffer's bytes.
NewUint8Array(buf) == [null |-> FALSE, alias |-> FALSE, data |-> buf.data]

\* The bytes a typed array holds while the engine's buffer holds `buf`.
Bytes(array, buf) == IF array.alias THEN buf.data ELSE array.data

\* The sum of the positive differences cur[i] - prev[i]; a bin prev lacks
\* gives NaN, which is not > 0 and adds nothing.
PositiveIncrease(cur, prev) ==
    SeqSum([i \in 1..Len(cur) |->
               IF i <= Len(prev) /\ cur[i] - prev[i] > 0 THEN cur[i] - prev[i] ELSE 0])

\* The flux summed with every difference counted, whatever its sign.
AbsoluteFluxSum(cur, prev) ==
    SeqSum([i \in 1..Len(cur) |-> IF i <= Len(prev) THEN Abs(cur[i] - prev[i]) ELSE 0])

FluxSum(cur, prev) == PositiveIncrease(cur, prev)

\* The flux with the copy taken and stored before the test for an absent
\* spectrum (`new Uint8Array(null)` is an empty array).
FluxStoringAbsentSpectrum(spectrum, prev) ==
    LET currentSpectrum == NewUint8Array(spectrum)
    IN  IF Absent(spectrum) \/ prev.null
        THEN [value |-> Zero, prevSpectrum |-> currentSpectrum]
        ELSE LET cur == Bytes(currentSpectrum, spectrum)
             IN  [value |-> Num(FluxSum(cur, Bytes(prev, spectrum)), Len(cur)),
                  prevSpectrum |-> currentSpectrum]

\* getSpectralFlux on the buffer `spectrum`, with baseline `prev`: the value
\* returned and the baseline left behind.
getSpectralFlux(spectrum, prev) ==
    IF Absent(spectrum) THEN [value |-> Zero, prevSpectrum |-> prev]
    ELSE LET currentSpectrum == NewUint8Array(spectrum)
         IN  IF prev.null
             THEN [value |-> Zero, prevSpectrum |-> currentSpectrum]
             ELSE LET cur  == Bytes(currentSpectrum, spectrum)
                      flux == FluxSum(cur, Bytes(prev, spectrum))
                  IN  [value |-> Num(flux, Len(cur)), prevSpectrum |-> currentSpectrum]

\* getFrequencyModulation: a flux computation of its own, scaled.
getFrequencyModulation(spectrum, prev) ==
    LET flux == getSpectralFlux(spectrum, prev)
    IN  [value |-> Min1(NumDiv(flux.value, Num(FMScale, 1))),
         prevSpectrum |-> flux.prevSpectrum]

\* The getters that keep no state are functions of the buffer they read and
\* of the sample rate; the two tables hold their values for every buffer and
\* rate of the model.
Rates == SampleRates \cup {DefaultSampleRate}

SpectrumBuffers ==
    {NullBuffer} \cup {Buffer(s) : s \in UNION {Spectra(n) : n \in 0..MaxBins}}

TimeDomainBuffers ==
    {NullBuffer} \cup {Buffer(w) : w \in UNION {Waves(len) : len \in WaveLens}}

OfSpectrum ==
    [spectrum \in SpectrumBuffers, sampleRate \in Rates |->
        [spectralCentroid |-> getSpectralCentroid(spectrum, sampleRate),
         spectralSpread   |-> getSpectralSpread(spectrum, sampleRate),
         spectralEntropy  |-> getSpectralEntropy(spectrum),
         tonality         |-> getTonality(spectrum),
         mfccs            |-> getMFCCs(spectrum, sampleRate)]]
    @@ << >>

OfTimeDomain ==
    [timeDomain \in TimeDomainBuffers, sampleRate \in Rates |->
        [rms                 |-> getRMS(timeDomain),
         peak                |-> getPeak(timeDomain),
         pitch               |-> getPitch(timeDomain, sampleRate),
         amplitudeModulation |-> getAmplitudeModulation(timeDomain)]]
    @@ << >>

\* getAllFeatures: the getters in the order of the object literal.
getAllFeatures(spectrum, timeDomain, sampleRate, prev) ==
    LET flux == getSpectralFlux(spectrum, prev)
        fm   == getFrequencyModulation(spectrum, flux.prevSpectrum)
        ofS  == OfSpectrum[spectrum, sampleRate]
        ofT  == OfTimeDomain[timeDomain, sampleRate]
    IN  [record |->
            [rms                 |-> ofT.rms,
             peak                |-> ofT.peak,
             spectralCentroid    |-> ofS.spectralCentroid,
             spectralSpread      |-> ofS.spectralSpread,
             spectralFlux        |-> flux.value,
             spectralEntropy     |-> ofS.spectralEntropy,
             tonality            |-> ofS.tonality,
             pitch               |-> ofT.pitch,
             amplitudeModulation |-> ofT.amplitudeModulation,
             frequencyModulation |-> fm.value,
             mfccs               |-> ofS.mfccs],
         prevSpectrum |-> fm.prevSpectrum]

(***************************************************************************)
(* Construction: `new AudioEngine()`, `new AudioAnalyzer(engine)`.         *)
(***************************************************************************)
\* What a call that throws a TypeError leaves as its result.
TypeError == [k |-> "TypeError", n |-> 0, d |-> 1, rn |-> 1, rd |-> 1]

Init ==
    /\ inited = FALSE
    /\ ctxSampleRate = 0
    /\ frequencyData = NullBuffer
    /\ timeDomainData = NullBuffer
    /\ hasMedia = FALSE
    /\ prevSpectrum = NullSpectrum
    /\ lastOp = "new"
    /\ result = Zero
    /\ streak = 0
    /\ SceneInit

(***************************************************************************)
(* App and AudioEngine: loading a file, seeking.                           *)
(***************************************************************************)
\* AudioEngine.init: the context, the analyser and the two zeroed buffers,
\* of the sizes and the rate the platform gives them.
EngineInit(binCount, fftSize, sampleRate) ==
    /\ inited' = TRUE
    /\ ctxSampleRate' = sampleRate
    /\ frequencyData' = Buffer([i \in 1..binCount |-> 0])
    /\ timeDomainData' = Buffer([i \in 1..fftSize |-> 0])

\* App.loadFile on a file that loads: AudioEngine.loadFile (init on first use,
\* a new media element and source), play, clearVisualizers, startAnimation.
\* None of them touches the analyzer.
LoadFile ==
    /\ \/ /\ ~inited
          /\ \E binCount \in 0..MaxBins, fftSize \in WaveLens, sampleRate \in SampleRates :
                EngineInit(binCount, fftSize, sampleRate)
       \/ /\ inited
          /\ UNCHANGED << inited, ctxSampleRate, frequencyData, timeDomainData >>
    /\ hasMedia' = TRUE
    /\ lastOp' = "loadFile"
    /\ result' = Zero
    /\ streak' = 0
    /\ UNCHANGED << prevSpectrum, sceneVars >>

\* The progress bar's click handler: AudioEngine.seek moves the media
\* element's currentTime (without a media element it does nothing).
Seek ==
    /\ hasMedia
    /\ lastOp' = "seek"
    /\ result' = Zero
    /\ streak' = 0
    /\ UNCHANGED << engineVars, sceneVars, frequencyData, timeDomainData, prevSpectrum >>

\* A caller's `analyzer.resetSession()`: AudioAnalyzer has no such member, the
\* call throws a TypeError and the analyzer is as it was.
ResetSession ==
    /\ lastOp' = "resetSession"
    /\ result' = TypeError
    /\ streak' = 0
    /\ UNCHANGED << engineVars, sceneVars, frequencyData, timeDomainData, prevSpectrum >>

(***************************************************************************)
(* AudioAnalyzer's methods, each a call by some caller.  A method reads    *)
(* the buffers through the engine, which refreshes them first.             *)
(***************************************************************************)
\* A getter of the time-domain buffer returning `value`.
TimeDomainCall(op, timeDomain, value) ==
    /\ timeDomainData' = timeDomain
    /\ lastOp' = op
    /\ result' = value
    /\ streak' = 0
    /\ UNCHANGED << engineVars, sceneVars, frequencyData, prevSpectrum >>

\* A getter of the spectrum returning `value`, the baseline untouched.
SpectrumCall(op, spectrum, value) ==
    /\ frequencyData' = spectrum
    /\ lastOp' = op
    /\ result' = value
    /\ streak' = 0
    /\ UNCHANGED << engineVars, sceneVars, timeDomainData, prevSpectrum >>

\* A method that computes the flux: `out` is its value and the new baseline.
FluxCall(op, spectrum, out) ==
    /\ frequencyData' = spectrum
    /\ prevSpectrum' = out.prevSpectrum
    /\ lastOp' = op
    /\ result' = out.value
    /\ streak' = 0
    /\ UNCHANGED << engineVars, sceneVars, timeDomainData >>

GetRMS ==
    \E w \in FreshWaves :
        LET timeDomain == getTimeDomainData(w)
        IN  TimeDomainCall("getRMS", timeDomain, OfTimeDomain[timeDomain, getSampleRate].rms)

GetPeak ==
    \E w \in FreshWaves :
        LET timeDomain == getTimeDomainData(w)
        IN  TimeDomainCall("getPeak", timeDomain, OfTimeDomain[timeDomain, getSampleRate].peak)

GetPitch ==
    \E w \in FreshWaves :
        LET timeDomain == getTimeDomainData(w)
        IN  TimeDomainCall("getPitch", timeDomain, OfTimeDomain[timeDomain, getSampleRate].pitch)

GetAmplitudeModulation ==
    \E w \in FreshWaves :
        LET timeDomain == getTimeDomainData(w)
        IN  TimeDomainCall("getAmplitudeModulation", timeDomain,
                           OfTimeDomain[timeDomain, getSampleRate].amplitudeModulation)

GetSpectralCentroid ==
    \E s \in FreshSpectra :
        LET spectrum == getFrequencyData(s)
        IN  SpectrumCall("getSpectralCentroid", spectrum,
                         OfSpectrum[spectrum, getSampleRate].spectralCentroid)

GetSpectralSpread ==
    \E s \in FreshSpectra :
        LET spectrum == getFrequencyData(s)
        IN  SpectrumCall("getSpectralSpread", spectrum,
                         OfSpectrum[spectrum, getSampleRate].spectralSpread)

GetSpectralEntropy ==
    \E s \in FreshSpectra :
        LET spectrum == getFrequencyData(s)
        IN  SpectrumCall("getSpectralEntropy", spectrum, OfSpectrum[spectrum, getSampleRate].spectralEntropy)

GetTonality ==
    \E s \in FreshSpectra :
        LET spectrum == getFrequencyData(s)
        IN  SpectrumCall("getTonality", spectrum, OfSpectrum[spectrum, getSampleRate].tonality)

GetMFCCs ==
    \E s \in FreshSpectra :
        LET spectrum == getFrequencyData(s)
        IN  SpectrumCall("getMFCCs", spectrum, OfSpectrum[spectrum, getSampleRate].mfccs)

GetSpectralFlux ==
    \E s \in FreshSpectra :
        LET spectrum == getFrequencyData(s)
        IN  FluxCall("getSpectralFlux", spectrum, getSpectralFlux(spectrum, prevSpectrum))

GetFrequencyModulation ==
    \E s \in FreshSpectra :
        LET spectrum == getFrequencyData(s)
        IN  FluxCall("getFrequencyModulation", spectrum,
                     getFrequencyModulation(spectrum, prevSpectrum))

\* App.updateVisualizers' call, once per rendered frame while playing (or any
\* other caller's): the two buffers hold the frame's data at every getter.
GetAllFeatures ==
    \E s \in FreshSpectra, w \in FreshWaves :
        LET spectrum   == getFrequencyData(s)
            timeDomain == getTimeDomainData(w)
            out        == getAllFeatures(spectrum, timeDomain, getSampleRate, prevSpectrum)
        IN  /\ frequencyData' = spectrum
            /\ timeDomainData' = timeDomain
            /\ prevSpectrum' = out.prevSpectrum
            /\ lastOp' = "getAllFeatures"
            /\ result' = out.record
            /\ streak' = Min2(streak + 1, 2)
            /\ UNCHANGED << engineVars, sceneVars >>

Next ==
    \/ LoadFile
    \/ Seek
    \/ ResetSession
    \/ GetRMS
    \/ GetPeak
    \/ GetPitch
    \/ GetAmplitudeModulation
    \/ GetSpectralCentroid
    \/ GetSpectralSpread
    \/ GetSpectralEntropy
    \/ GetTonality
    \/ GetMFCCs
    \/ GetSpectralFlux
    \/ GetFrequencyModulation
    \/ GetAllFeatures

Spec == Init /\ [][Next]_vars

(***************************************************************************)
(* The feature getters on data held still.  A session of this second       *)
(* specification starts with the engine initialised and one of the two     *)
(* buffers filled by the analyser (the other has no samples); every getter *)
(* call finds the analyser delivering the same data again, so a getter's   *)
(* value is its value on the buffer of the state.                          *)
(***************************************************************************)
FeatureSpectra == UNION {[1..n -> FeatureVals] : n \in 1..MaxFeatureBins}

FeatureWaves == {MakeWave(len, shape) : len \in FeatureWaveLens, shape \in FeatureWaveShapes}

\* The stateless getters of a spectrum, for every spectrum and rate held.
OfHeldSpectrum ==
    [s \in FeatureSpectra \cup {<< >>}, sampleRate \in FeatureRates |->
        [spectralCentroid |-> getSpectralCentroid(Buffer(s), sampleRate),
         spectralSpread   |-> getSpectralSpread(Buffer(s), sampleRate),
         spectralEntropy  |-> getSpectralEntropy(Buffer(s)),
         tonality         |-> getTonality(Buffer(s)),
         mfccs            |-> getMFCCs(Buffer(s), sampleRate)]]
    @@ << >>

OfHeldWave ==
    [w \in FeatureWaves, sampleRate \in FeatureRates |->
        [rms                 |-> getRMS(Buffer(w)),
         peak                |-> getPeak(Buffer(w)),
         pitch               |-> getPitch(Buffer(w), sampleRate),
         amplitudeModulation |-> getAmplitudeModulation(Buffer(w))]]
    @@ << >>

FeatureInit ==
    /\ inited = TRUE
    /\ hasMedia = TRUE
    /\ ctxSampleRate \in FeatureRates
    /\ \/ frequencyData \in {Buffer(s) : s \in FeatureSpectra} /\ timeDomainData = Buffer(<< >>)
       \/ frequencyData = Buffer(<< >>) /\ timeDomainData \in {Buffer(w) : w \in FeatureWaves}
    /\ prevSpectrum = NullSpectrum
    /\ lastOp = "new"
    /\ result = Zero
    /\ streak = 0
    /\ SceneInit

\* A getter of the spectrum, the analyser delivering the held data.
HeldSpectrumCall(op) ==
    LET spectrum == getFrequencyData(frequencyData.data)
    IN  SpectrumCall(op, spectrum, OfHeldSpectrum[spectrum.data, getSampleRate][
            CASE op = "getSpectralCentroid" -> "spectralCentroid"
              [] op = "getSpectralSpread"   -> "spectralSpread"
              [] op = "getSpectralEntropy"  -> "spectralEntropy"
              [] op = "getTonality"         -> "tonality"
              [] op = "getMFCCs"            -> "mfccs"])

\* A getter of the waveform, likewise.
HeldWaveCall(op) ==
    LET timeDomain == getTimeDomainData(timeDomainData.data)
    IN  TimeDomainCall(op, timeDomain, OfHeldWave[timeDomain.data, getSampleRate][
            CASE op = "getRMS"                 -> "rms"
              [] op = "getPeak"                -> "peak"
              [] op = "getPitch"               -> "pitch"
              [] op = "getAmplitudeModulation" -> "amplitudeModulation"])

HeldRMS == HeldWaveCall("getRMS")

HeldPeak == HeldWaveCall("getPeak")

HeldPitch == HeldWaveCall("getPitch")

HeldAmplitudeModulation == HeldWaveCall("getAmplitudeModulation")

HeldSpectralCentroid == HeldSpectrumCall("getSpectralCentroid")

HeldSpectralSpread == HeldSpectrumCall("getSpectralSpread")

HeldSpectralEntropy == HeldSpectrumCall("getSpectralEntropy")

HeldTonality == HeldSpectrumCall("getTonality")

HeldMFCCs == HeldSpectrumCall("getMFCCs")

FeatureNext ==
    \/ HeldRMS
    \/ HeldPeak
    \/ HeldPitch
    \/ HeldAmplitudeModulation
    \/ HeldSpectralCentroid
    \/ HeldSpectralSpread
    \/ HeldSpectralEntropy
    \/ HeldTonality
    \/ HeldMFCCs

FeatureSpec == FeatureInit /\ [][FeatureNext]_vars

(***************************************************************************)
(* The analyzer behind a collaborator that breaks the fixed-length         *)
(* contract.  AudioAnalyzer takes whatever `engine.getFrequencyData()`     *)
(* returns; frequencyData is a public field of the engine, and a           *)
(* collaborator that changes the analyser's fftSize allocates it anew with *)
(* another length.  Nothing in main.js does so: this third specification   *)
(* is the analyzer with such a collaborator.                               *)
(***************************************************************************)
\* The collaborator installs a zeroed frequencyData of `binCount` bins, as
\* AudioEngine.init does for the analyser's frequencyBinCount.
ReplaceFrequencyData ==
    /\ inited
    /\ \E binCount \in 0..MaxBins :
          /\ binCount # Len(frequencyData.data)
          /\ frequencyData' = Buffer([i \in 1..binCount |-> 0])
    /\ lastOp' = "replaceFrequencyData"
    /\ result' = Zero
    /\ streak' = 0
    /\ UNCHANGED << engineVars, sceneVars, timeDomainData, prevSpectrum >>

ContractNext ==
    \/ LoadFile
    \/ ReplaceFrequencyData
    \/ GetSpectralFlux
    \/ GetFrequencyModulation
    \/ GetAllFeatures

ContractSpec == Init /\ [][ContractNext]_vars

(***************************************************************************)
(* ToneEvolution: the trail of the tone's path.  `time` is counted in the  *)
(* code's steps of 0.08, `trail` is the set of the vertices of             *)
(* trailPositions written since the buffer was last zeroed, and the        *)
(* coordinates and colours of a vertex are left out.                       *)
(***************************************************************************)
exceptTone == << analyzerVars, recordVars, playbackVars, providerVars >>

\* addPoint(centroid, tonality, amplitude).
AddPoint ==
    /\ toneEvolution.time < MaxAddPoints
    /\ LET pointIndex == (toneEvolution.pointIndex + 1) % maxPoints
       IN  toneEvolution' =
               [pointIndex    |-> pointIndex,
                particleIndex |-> (toneEvolution.particleIndex + 1) % maxParticles,
                time          |-> toneEvolution.time + 1,
                trail         |-> toneEvolution.trail \cup {toneEvolution.pointIndex},
                drawRange     |-> [start |-> 0,
                                   count |-> Num(Min2(pointIndex + 1, maxPoints), 1)]]
    /\ lastOp' = "addPoint"
    /\ UNCHANGED exceptTone

\* clear().
Clear ==
    /\ toneEvolution' = [pointIndex    |-> 0,
                         particleIndex |-> 0,
                         time          |-> 0,
                         trail         |-> {},
                         drawRange     |-> [start |-> 0, count |-> Zero]]
    /\ lastOp' = "clear"
    /\ UNCHANGED exceptTone

ToneNext == AddPoint \/ Clear

ToneSpec == Init /\ [][ToneNext]_vars

(***************************************************************************)
(* The records of getAllFeatures in the hands of a caller.  A record is an *)
(* object and its mfccs a Float32Array: both have an identity, modelled as *)
(* an address, and a caller's write goes to the object at the address.     *)
(***************************************************************************)
\* `new Float32Array(numCoeffs)`, or an object literal: an address that no
\* object has yet.
NewObject(objects) == Len(objects) + 1

\* An output array allocated once and used by every call.
OutputScratch(objects) == 1

NewFloat32Array(objects) == NewObject(objects)

\* The object table with `value` at `address`.
Store(objects, address, value) ==
    [a \in 1..Max2(Len(objects), address) |-> IF a = address THEN value ELSE objects[a]]

\* What a caller reads in the record at `address`.
View(address) == [records[address] EXCEPT !.mfccs = arrays[records[address].mfccs]]

\* The values a caller writes.
Written == {Num(7, 1)}

\* A session with a file loaded: the engine initialised, a spectrum of one
\* bin and a waveform of 20 samples.
LoadedInit ==
    /\ inited = TRUE
    /\ hasMedia = TRUE
    /\ ctxSampleRate = DefaultSampleRate
    /\ frequencyData = Buffer(<< 0 >>)
    /\ timeDomainData = Buffer([i \in 1..20 |-> 0])
    /\ prevSpectrum = NullSpectrum
    /\ lastOp = "loadFile"
    /\ result = Zero
    /\ streak = 0
    /\ SceneInit

\* A caller's `features = analyzer.getAllFeatures()`, the record kept.
KeepAllFeatures ==
    /\ Len(held) < MaxHeld
    /\ \E s \in FreshSpectra, w \in FreshWaves :
          LET spectrum   == getFrequencyData(s)
              timeDomain == getTimeDomainData(w)
              out        == getAllFeatures(spectrum, timeDomain, getSampleRate, prevSpectrum)
              mfccs      == NewFloat32Array(arrays)
              record     == NewObject(records)
          IN  /\ frequencyData' = spectrum
              /\ timeDomainData' = timeDomain
              /\ prevSpectrum' = out.prevSpectrum
              /\ arrays' = Store(arrays, mfccs, out.record.mfccs)
              /\ records' = Store(records, record, [out.record EXCEPT !.mfccs = mfccs])
              /\ held' = Append(held, record)
              /\ lastOp' = "getAllFeatures"
              /\ result' = out.record
              /\ streak' = Min2(streak + 1, 2)
    /\ UNCHANGED << engineVars, toneEvolution, playbackVars, providerVars >>

\* A caller's `features.rms = value` on a record it keeps.
WriteField ==
    /\ \E i \in 1..Len(held), value \in Written :
          records' = [records EXCEPT ![held[i]].rms = value]
    /\ lastOp' = "write"
    /\ UNCHANGED << analyzerVars, toneEvolution, playbackVars, providerVars, arrays, held >>

\* A caller's `features.mfccs[c] = value` on a record it keeps.
WriteCoefficient ==
    /\ \E i \in 1..Len(held), c \in {1}, value \in Written :
          arrays' = [arrays EXCEPT ![records[held[i]].mfccs][c] = value]
    /\ lastOp' = "write"
    /\ UNCHANGED << analyzerVars, toneEvolution, playbackVars, providerVars, records, held >>

\* The caller lets go of its records, which the collector then frees.
Release ==
    /\ held # << >>
    /\ arrays' = << >>
    /\ records' = << >>
    /\ held' = << >>
    /\ lastOp' = "release"
    /\ UNCHANGED << analyzerVars, toneEvolution, playbackVars, providerVars >>

RecordNext ==
    \/ KeepAllFeatures
    \/ WriteField
    \/ WriteCoefficient
    \/ Release

RecordSpec == LoadedInit /\ [][RecordNext]_vars

(***************************************************************************)
(* Playback: App.loadFile, togglePlayback, showUploadSection and the       *)
(* animation loop over AudioEngine.loadFile, play and pause.  An async     *)
(* call runs up to its next await in one step; what it awaits (the         *)
(* metadata of a media element, the promise of HTMLMediaElement.play) is   *)
(* settled by the browser in a later step, which runs the call on to its   *)
(* next await or its end.  The audio context is running, so the two        *)
(* `resume()` branches are not taken.  A media element is                  *)
(* [state, paused, ended, duration, file, sources]: `file` is the duration *)
(* its file has, `duration` what the element reports (NaN until the        *)
(* metadata is there), `sources` the number of MediaElementSource nodes    *)
(* made from it.  What a frame draws, the DOM classes and the layout are   *)
(* left out.                                                               *)
(***************************************************************************)
exceptPlayback == << prevSpectrum, result, streak, recordVars, providerVars >>

\* document.createElement('audio' / 'video') with `src` set to a file.
NewElement(file) ==
    [state |-> "loading", paused |-> TRUE, ended |-> FALSE,
     duration |-> NaN, file |-> file, sources |-> 0]

\* HTMLMediaElement.pause() on element m: a playing element is paused, and
\* the promises of its play() calls still pending will reject (AbortError).
PausedElements(m) ==
    IF m = 0 THEN elements ELSE [elements EXCEPT ![m].paused = TRUE]

Aborted(m) ==
    IF m = 0 \/ elements[m].paused THEN calls
    ELSE {IF c.pc = "play" /\ c.awaits = m THEN [c EXCEPT !.outcome = "abort"] ELSE c : c \in calls}

\* HTMLMediaElement.play() on element m of the elements `els`.
Playing(els, m) == [els EXCEPT ![m].paused = FALSE, ![m].ended = FALSE]

\* requestAnimationFrame's next id, given the callbacks `held`.
NewFrame(pending) == CHOOSE id \in 1..(Cardinality(pending) + 1) : \A f \in pending : f.id # id

\* The animate chains scheduled: the pending callbacks that are `animate`.
Chains == {f \in frames : f.kind = "animate"}

\* App.loadFile(file) up to AudioEngine.loadFile's await of the metadata:
\* init on first use, the previous source disconnected, the previous media
\* element paused and removed, a new element installed.
AppLoadFile ==
    /\ Len(elements) < MaxLoads
    /\ \/ /\ ~inited
          /\ EngineInit(MaxBins, 20, DefaultSampleRate)
       \/ /\ inited
          /\ UNCHANGED << inited, ctxSampleRate, frequencyData, timeDomainData >>
    /\ \E file \in FileDurations :
          LET element == Len(elements) + 1
          IN  /\ elements' = Append(PausedElements(engine.mediaElement), NewElement(file))
              /\ engine' = [engine EXCEPT !.mediaElement = element,
                                          !.connected = IF engine.source # 0 THEN FALSE ELSE @]
              /\ calls' = Aborted(engine.mediaElement)
                              \cup {[kind |-> "loadFile", element |-> element, pc |-> "metadata",
                                     awaits |-> element, outcome |-> "pending"]}
    /\ hasMedia' = TRUE
    /\ lastOp' = "loadFile"
    /\ UNCHANGED << app, frames, toneEvolution, exceptPlayback >>

\* The metadata of a call's element arrives.  AudioEngine.loadFile goes on:
\* duration, createMediaElementSource (which throws InvalidStateError for
\* an element that has a source node already), connect, return; then
\* App.loadFile: showVisualizerSection, and audioEngine.play() up to its
\* await of HTMLMediaElement.play().  When the source cannot be created the
\* call ends in App.loadFile's catch.
LoadedMetadata ==
    \E c \in calls :
        /\ c.pc = "metadata"
        /\ elements[c.element].state = "loading"
        /\ LET loaded == [elements EXCEPT ![c.element].state = "loaded",
                                          ![c.element].duration = Num(elements[c.element].file, 1)]
               m      == engine.mediaElement
           IN  IF loaded[m].sources > 0
               THEN /\ engine' = [engine EXCEPT !.duration = loaded[m].duration]
                    /\ elements' = loaded
                    /\ calls' = calls \ {c}
                    /\ lastOp' = "loadFile rejected"
                    /\ UNCHANGED frames
               ELSE /\ engine' = [engine EXCEPT !.duration = loaded[m].duration,
                                                !.source = m,
                                                !.connected = TRUE]
                    /\ elements' = Playing([loaded EXCEPT ![m].sources = 1], m)
                    /\ calls' = (calls \ {c}) \cup {[c EXCEPT !.pc = "play", !.awaits = m]}
                    /\ frames' = frames \cup {[id |-> NewFrame(frames), kind |-> "resize"]}
                    /\ lastOp' = "loadedmetadata"
        /\ UNCHANGED << engineVars, frequencyData, timeDomainData, app, toneEvolution, exceptPlayback >>

\* The element of a call fails to load: the awaited promise rejects and the
\* call ends in App.loadFile's catch.
MetadataError ==
    \E c \in calls :
        /\ c.pc = "metadata"
        /\ elements[c.element].state = "loading"
        /\ elements' = [elements EXCEPT ![c.element].state = "error"]
        /\ calls' = calls \ {c}
        /\ lastOp' = "loadFile rejected"
        /\ UNCHANGED << engineVars, frequencyData, timeDomainData, engine, app, frames,
                        toneEvolution, exceptPlayback >>

\* A play() promise settles.  Resolved, AudioEngine.play sets isPlaying and
\* an awaiting App.loadFile goes on: isPlaying, clearVisualizers,
\* startAnimation.  Rejected (the element was paused meanwhile, or its file
\* cannot be played), App.loadFile ends in its catch and togglePlayback's
\* promise is dropped.
SettlePlay ==
    \E c \in calls :
        /\ c.pc = "play"
        /\ LET element  == elements[c.awaits]
               rejected == c.outcome = "abort" \/ element.state = "error"
               resolved == ~rejected /\ element.state = "loaded" /\ ~element.paused
           IN  /\ rejected \/ resolved
               /\ calls' = calls \ {c}
               /\ IF rejected
                  THEN /\ lastOp' = "play rejected"
                       /\ UNCHANGED << engine, app, frames, toneEvolution >>
                  ELSE /\ lastOp' = "play resolved"
                       /\ engine' = [engine EXCEPT !.isPlaying = TRUE]
                       /\ IF c.kind = "loadFile"
                          THEN LET id == NewFrame(frames)
                               IN  /\ app' = [isPlaying |-> TRUE, animationId |-> id]
                                   /\ frames' = frames \cup {[id |-> id, kind |-> "animate"]}
                                   /\ toneEvolution' =
                                          [pointIndex    |-> 0,
                                           particleIndex |-> 0,
                                           time          |-> 0,
                                           trail         |-> {},
                                           drawRange     |-> [start |-> 0, count |-> Zero]]
                          ELSE UNCHANGED << app, frames, toneEvolution >>
        /\ UNCHANGED << engineVars, frequencyData, timeDomainData, elements, exceptPlayback >>

\* App.togglePlayback: AudioEngine.pause, or AudioEngine.play not awaited.
TogglePlayback ==
    /\ LET m == engine.mediaElement
       IN  IF app.isPlaying
           THEN /\ elements' = PausedElements(m)
                /\ calls' = Aborted(m)
                /\ engine' = IF m # 0 THEN [engine EXCEPT !.isPlaying = FALSE] ELSE engine
                /\ app' = [app EXCEPT !.isPlaying = FALSE]
           ELSE /\ IF m # 0 /\ inited
                   THEN /\ elements' = Playing(elements, m)
                        /\ calls' = calls \cup {[kind |-> "play", element |-> 0, pc |-> "play",
                                                 awaits |-> m, outcome |-> "pending"]}
                   ELSE UNCHANGED << elements, calls >>
                /\ app' = [app EXCEPT !.isPlaying = TRUE]
                /\ UNCHANGED engine
    /\ lastOp' = "togglePlayback"
    /\ UNCHANGED << engineVars, frequencyData, timeDomainData, frames, toneEvolution,
                    exceptPlayback >>

\* App.showUploadSection: stopAnimation, AudioEngine.pause, isPlaying.
ShowUploadSection ==
    /\ LET m == engine.mediaElement
       IN  /\ frames' = {f \in frames : f.id # app.animationId}
           /\ elements' = PausedElements(m)
           /\ calls' = Aborted(m)
           /\ engine' = IF m # 0 THEN [engine EXCEPT !.isPlaying = FALSE] ELSE engine
           /\ app' = [isPlaying |-> FALSE, animationId |-> 0]
    /\ lastOp' = "showUploadSection"
    /\ UNCHANGED << engineVars, frequencyData, timeDomainData, toneEvolution, exceptPlayback >>

\* The browser runs a pending animation callback: `animate` requests its
\* next frame and stores the id; the layout callback runs once.
AnimationFrame ==
    \E f \in frames :
        /\ IF f.kind = "animate"
           THEN LET id == NewFrame(frames \ {f})
                IN  /\ frames' = (frames \ {f}) \cup {[id |-> id, kind |-> "animate"]}
                    /\ app' = [app EXCEPT !.animationId = id]
                    /\ lastOp' = "animate"
           ELSE /\ frames' = frames \ {f}
                /\ lastOp' = "handleResize"
                /\ UNCHANGED app
        /\ UNCHANGED << engineVars, frequencyData, timeDomainData, engine, elements, calls,
                        toneEvolution, exceptPlayback >>

\* A playing element reaches the end of its file.  Nothing listens.
MediaEnded ==
    \E m \in DOMAIN elements :
        /\ elements[m].state = "loaded"
        /\ ~elements[m].paused
        /\ ~elements[m].ended
        /\ elements' = [elements EXCEPT ![m].ended = TRUE]
        /\ lastOp' = "ended"
        /\ UNCHANGED << engineVars, frequencyData, timeDomainData, engine, calls, app, frames,
                        toneEvolution, exceptPlayback >>

PlaybackNext ==
    \/ AppLoadFile
    \/ LoadedMetadata
    \/ MetadataError
    \/ SettlePlay
    \/ TogglePlayback
    \/ ShowUploadSection
    \/ AnimationFrame
    \/ MediaEnded

PlaybackSpec == Init /\ [][PlaybackNext]_vars

(***************************************************************************)
(* The React AudioProvider.  An async callback runs up to its next await   *)
(* in one step; the browser settles what it awaits, and dispatches the     *)
(* media events it has queued, in later steps.  A media element is         *)
(* [state, paused, ended, currentTime, listening]: `listening` says that   *)
(* loadFile has added its 'timeupdate' and 'ended' listeners, which        *)
(* nothing removes.  Time is counted in steps of playback.  The audio      *)
(* context is running; the analysis loop, the volume and the file's name   *)
(* and type are left out.                                                  *)
(***************************************************************************)
exceptProvider == << analyzerVars, toneEvolution, recordVars, playbackVars >>

\* HTMLMediaElement.pause() on element m: a playing element is paused, the
\* browser queues a 'timeupdate' event, and the promises of its play()
\* calls still pending will reject (AbortError).
MediaPaused(m) ==
    IF m = 0 THEN media ELSE [media EXCEPT ![m].paused = TRUE]

TasksAfterPause(m) ==
    IF m = 0 \/ media[m].paused THEN tasks
    ELSE {IF t.kind = "play" /\ t.element = m THEN [t EXCEPT !.outcome = "abort"] ELSE t : t \in tasks}
         \cup {[kind |-> "timeupdate", element |-> m, outcome |-> "pending"]}

\* loadFile(newFile) up to its await of the metadata: the current element
\* is paused, a new element is created.
ProviderLoadFile ==
    /\ Len(media) < MaxProviderLoads
    /\ LET element == Len(media) + 1
       IN  /\ media' = Append(MediaPaused(provider.mediaElement),
                              [state |-> "loading", paused |-> TRUE, ended |-> FALSE,
                               currentTime |-> 0, listening |-> FALSE])
           /\ tasks' = TasksAfterPause(provider.mediaElement)
                           \cup {[kind |-> "loadFile", element |-> element, outcome |-> "pending"]}
    /\ lastOp' = "loadFile"
    /\ UNCHANGED << provider, exceptProvider >>

\* The metadata of a loadFile call's element arrives and the call goes on
\* to its end: the source, the refs, the state, the two listeners.
ProviderLoadedMetadata ==
    \E t \in tasks :
        /\ t.kind = "loadFile"
        /\ media[t.element].state = "loading"
        /\ media' = [media EXCEPT ![t.element].state = "loaded",
                                  ![t.element].listening = TRUE]
        /\ provider' = [provider EXCEPT !.source = t.element,
                                        !.mediaElement = t.element,
                                        !.file = t.element,
                                        !.duration = MediaLength,
                                        !.currentTime = 0]
        /\ tasks' = tasks \ {t}
        /\ lastOp' = "loadedmetadata"
        /\ UNCHANGED exceptProvider

\* play() up to its await of HTMLMediaElement.play().
ProviderPlay ==
    /\ IF provider.mediaElement = 0
       THEN UNCHANGED << media, tasks >>
       ELSE LET m == provider.mediaElement
            IN  /\ media' = [media EXCEPT ![m].paused = FALSE,
                                          ![m].ended = FALSE,
                                          ![m].currentTime = IF media[m].ended THEN 0 ELSE @]
                /\ tasks' = tasks \cup {[kind |-> "play", element |-> m, outcome |-> "pending"]}
    /\ lastOp' = "play"
    /\ UNCHANGED << provider, exceptProvider >>

\* The promise of a play() settles: resolved, play goes on to
\* setIsPlaying(true); rejected, it ends.
ProviderSettlePlay ==
    \E t \in tasks :
        /\ t.kind = "play"
        /\ tasks' = tasks \ {t}
        /\ IF t.outcome = "abort"
           THEN /\ lastOp' = "play rejected"
                /\ UNCHANGED provider
           ELSE /\ ~media[t.element].paused
                /\ lastOp' = "play resolved"
                /\ provider' = [provider EXCEPT !.isPlaying = TRUE]
        /\ UNCHANGED << media, exceptProvider >>

\* pause().
ProviderPause ==
    /\ IF provider.mediaElement = 0
       THEN UNCHANGED << provider, media, tasks >>
       ELSE /\ media' = MediaPaused(provider.mediaElement)
            /\ tasks' = TasksAfterPause(provider.mediaElement)
            /\ provider' = [provider EXCEPT !.isPlaying = FALSE]
    /\ lastOp' = "pause"
    /\ UNCHANGED exceptProvider

\* removeFile().
ProviderRemoveFile ==
    /\ media' = MediaPaused(provider.mediaElement)
    /\ tasks' = TasksAfterPause(provider.mediaElement)
    /\ provider' = [file         |-> 0,
                    isPlaying    |-> FALSE,
                    currentTime  |-> 0,
                    duration     |-> 0,
                    mediaElement |-> 0,
                    source       |-> 0]
    /\ lastOp' = "removeFile"
    /\ UNCHANGED exceptProvider

\* A playing element plays on by one step; the browser queues a
\* 'timeupdate' event and, at the end of the file, an 'ended' event.
MediaPlays ==
    \E m \in DOMAIN media :
        /\ media[m].state = "loaded"
        /\ ~media[m].paused
        /\ ~media[m].ended
        /\ LET time == media[m].currentTime + 1
           IN  /\ media' = [media EXCEPT ![m].currentTime = time,
                                         ![m].ended = (time = MediaLength)]
               /\ tasks' = tasks \cup {[kind |-> "timeupdate", element |-> m, outcome |-> "pending"]}
                                 \cup (IF time = MediaLength
                                       THEN {[kind |-> "ended", element |-> m, outcome |-> "pending"]}
                                       ELSE {})
        /\ lastOp' = "playback"
        /\ UNCHANGED << provider, exceptProvider >>

\* The browser dispatches a queued media event to the element's listeners:
\* setCurrentTime(element.currentTime) on 'timeupdate', setIsPlaying(false)
\* on 'ended'.
ProviderMediaEvent ==
    \E t \in tasks :
        /\ t.kind \in {"timeupdate", "ended"}
        /\ tasks' = tasks \ {t}
        /\ provider' =
              IF ~media[t.element].listening THEN provider
              ELSE IF t.kind = "timeupdate"
                   THEN [provider EXCEPT !.currentTime = media[t.element].currentTime]
                   ELSE [provider EXCEPT !.isPlaying = FALSE]
        /\ lastOp' = t.kind
        /\ UNCHANGED << media, exceptProvider >>

ProviderNext ==
    \/ ProviderLoadFile
    \/ ProviderLoadedMetadata
    \/ ProviderPlay
    \/ ProviderSettlePlay
    \/ ProviderPause
    \/ ProviderRemoveFile
    \/ MediaPlays
    \/ ProviderMediaEvent

ProviderSpec == Init /\ [][ProviderNext]_vars

(***************************************************************************)
(* Properties.                                                             *)
(***************************************************************************)
\* The bytes of the stored baseline.
Baseline == Bytes(prevSpectrum, frequencyData)

IsSilence(timeDomain) == \A i \in 1..Len(timeDomain.data) : timeDomain.data[i] = Centre

IsAllZero(spectrum) == \A i \in 1..Len(spectrum.data) : spectrum.data[i] = 0

\* C1: for an all-silence waveform and an all-zero spectrum of N >= 2 bins the
\* record of getAllFeatures has rms = peak = spectralFlux = spectralEntropy =
\* tonality = pitch = 0.
C1_SilenceIsAllZero ==
    ( /\ lastOp = "getAllFeatures"
      /\ inited
      /\ Len(frequencyData.data) >= 2
      /\ IsAllZero(frequencyData)
      /\ IsSilence(timeDomainData) )
    => /\ IsZero(result.rms)
       /\ IsZero(result.peak)
       /\ IsZero(result.spectralFlux)
       /\ IsZero(result.spectralEntropy)
       /\ IsZero(result.tonality)
       /\ IsZero(result.pitch)

\* C2: no scalar field and no mfcc entry of a record of getAllFeatures is NaN
\* or an infinity, whatever the lengths and contents of the buffers.
C2_RecordIsFinite ==
    lastOp = "getAllFeatures"
    => /\ \A f \in {"rms", "peak", "spectralCentroid", "spectralSpread", "spectralFlux",
                    "spectralEntropy", "tonality", "pitch", "amplitudeModulation",
                    "frequencyModulation"} : IsFinite(result[f])
       /\ \A c \in 1..Len(result.mfccs) : IsFinite(result.mfccs[c])

\* C3: in every record of getAllFeatures rms, spectralEntropy, tonality,
\* amplitudeModulation and frequencyModulation lie in [0,1].
C3_ClampedFields ==
    lastOp = "getAllFeatures"
    => \A f \in {"rms", "spectralEntropy", "tonality", "amplitudeModulation",
                 "frequencyModulation"} : InUnitInterval(result[f])

\* C4: after resetSession the next getSpectralFlux call returns 0 whatever the
\* spectrum is, and stores that spectrum as the new baseline.
C4_ResetClearsBaseline ==
    [][ ( /\ lastOp = "resetSession"
          /\ lastOp' = "getSpectralFlux"
          /\ ~Absent(frequencyData') )
        => /\ IsZero(result')
           /\ ~prevSpectrum'.null
           /\ Baseline' = frequencyData'.data ]_vars

\* C5: the first frame analysed after a file was loaded or the progress bar
\* seeked has spectralFlux 0: the flux baseline was cleared in between.
C5_FluxZeroAfterSwapOrSeek ==
    [][ (lastOp \in {"loadFile", "seek"} /\ lastOp' = "getAllFeatures")
        => IsZero(result'.spectralFlux) ]_vars

\* C6: when a frame analysed by getAllFeatures follows a frame analysed by
\* getAllFeatures, its spectralFlux is the sum over the bins of
\* max(0, S_t[i] - S_(t-1)[i]), divided by the bin count.
C6_FluxOfConsecutiveFrames ==
    [][ ( /\ lastOp = "getAllFeatures"
          /\ lastOp' = "getAllFeatures"
          /\ ~Absent(frequencyData') )
        => result'.spectralFlux
             = Num(PositiveIncrease(frequencyData'.data, frequencyData.data),
                   Len(frequencyData'.data)) ]_vars

\* C6's case: a second consecutive frame, with a positive flux.
C6_Witness ==
    /\ lastOp = "getAllFeatures"
    /\ streak = 2
    /\ ~IsZero(result.spectralFlux)

\* C7: in every record of getAllFeatures, frequencyModulation is
\* min(1, spectralFlux / 10) of the same record's spectralFlux.
C7_ModulationIsScaledFlux ==
    lastOp = "getAllFeatures"
    => result.frequencyModulation = Min1(NumDiv(result.spectralFlux, Num(FMScale, 1)))

\* C8: getRMS, getPeak, getSpectralCentroid, getSpectralSpread,
\* getSpectralEntropy, getTonality, getPitch, getAmplitudeModulation,
\* getFrequencyModulation and getMFCCs leave the stored previous spectrum
\* unchanged.
C8_OnlyFluxWritesBaseline ==
    [][ lastOp' \in {"getRMS", "getPeak", "getSpectralCentroid", "getSpectralSpread",
                     "getSpectralEntropy", "getTonality", "getPitch",
                     "getAmplitudeModulation", "getFrequencyModulation", "getMFCCs"}
        => prevSpectrum' = prevSpectrum ]_vars

\* The getters that refresh the engine's frequency buffer and compute no flux.
SpectrumReaders ==
    {"getSpectralCentroid", "getSpectralSpread", "getSpectralEntropy", "getTonality",
     "getMFCCs"}

\* C9: the stored previous spectrum is a snapshot: when the engine's reused
\* frequency buffer is overwritten with the next data, the baseline still
\* holds the bytes it was stored with.
C9_BaselineIsSnapshot ==
    [][ (~prevSpectrum.null /\ lastOp' \in SpectrumReaders)
        => (~prevSpectrum'.null /\ Baseline' = Baseline) ]_vars

\* C9's case: the buffer was overwritten with other bytes than the baseline's.
C9_Witness ==
    /\ ~prevSpectrum.null
    /\ lastOp \in SpectrumReaders
    /\ Baseline # frequencyData.data

\* The spectrum (p/q) * s, when every bin of it is a whole byte.
CanScale(s, p, q) == \A i \in 1..Len(s) : (p * s[i]) % q = 0 /\ (p * s[i]) \div q <= 255

Scaled(s, p, q) == Buffer([i \in 1..Len(s) |-> (p * s[i]) \div q])

\* C10: getSpectralCentroid and getSpectralSpread return for c * S, c > 0,
\* what they return for S.
C10_ScaleInvariance ==
    \A p, q \in 1..MaxScale :
        CanScale(frequencyData.data, p, q)
        => /\ lastOp = "getSpectralCentroid"
              => getSpectralCentroid(Scaled(frequencyData.data, p, q), getSampleRate) = result
           /\ lastOp = "getSpectralSpread"
              => getSpectralSpread(Scaled(frequencyData.data, p, q), getSampleRate) = result

\* C10's case: a spread that is not 0, of a spectrum that can be scaled by a
\* gain other than 1.
C10_Witness ==
    /\ lastOp = "getSpectralSpread"
    /\ ~IsZero(result)
    /\ \E p, q \in 1..MaxScale : p # q /\ CanScale(frequencyData.data, p, q)

\* The spectrum of the state, and its bins as the code numbers them.
HeldBins == frequencyData.data

OnlyNonzeroBin(k) ==
    /\ k \in 0..(Len(HeldBins) - 1)
    /\ HeldBins[k + 1] > 0
    /\ \A i \in 1..Len(HeldBins) : i # k + 1 => HeldBins[i] = 0

\* C11: for a spectrum of N bins whose only nonzero bin is k the centroid is
\* k * sampleRate / (2 * N) and the spread is 0; for a spectrum of total
\* magnitude 0 both are 0.
C11_SingleBinCentroid ==
    /\ \A k \in 0..(Len(HeldBins) - 1) :
          OnlyNonzeroBin(k)
          => /\ lastOp = "getSpectralCentroid"
                => result = Num(k * getSampleRate, 2 * Len(HeldBins))
             /\ lastOp = "getSpectralSpread" => IsZero(result)
    /\ (lastOp \in {"getSpectralCentroid", "getSpectralSpread"} /\ IsAllZero(frequencyData))
       => IsZero(result)

\* C11's case: the centroid of a spectrum whose only nonzero bin is not bin 0.
C11_Witness ==
    /\ lastOp = "getSpectralCentroid"
    /\ \E k \in 1..(Len(HeldBins) - 1) : OnlyNonzeroBin(k)
    /\ ~IsZero(result)

IsUniform(s) == \A i \in 1..Len(s) : s[i] = s[1]

\* C12: for a uniform spectrum of N >= 2 bins getSpectralEntropy returns 1.
C12_UniformEntropy ==
    ( /\ lastOp = "getSpectralEntropy"
      /\ Len(HeldBins) >= 2
      /\ IsUniform(HeldBins) )
    => result = One

\* C12's case: the entropy of a uniform spectrum of three or more bins, the
\* largest magnitude in every bin.
C12_Witness ==
    /\ lastOp = "getSpectralEntropy"
    /\ Len(HeldBins) >= 3
    /\ IsUniform(HeldBins)
    /\ HeldBins[1] = 100

\* x < 1/2, for a rational x.
BelowHalf(x) == IsFinite(x) /\ x.rn = 1 /\ x.rd = 1 /\ 2 * x.n < x.d

\* C13: for a spectrum of N >= 2 bins whose only nonzero bin is one bin,
\* getSpectralEntropy returns a value below 0.5.
C13_SingleBinEntropyIsLow ==
    ( /\ lastOp = "getSpectralEntropy"
      /\ Len(HeldBins) >= 2
      /\ \E k \in 0..(Len(HeldBins) - 1) : OnlyNonzeroBin(k) )
    => BelowHalf(result)

\* The bins of s, as sequence indices, that exceed both neighbours and the
\* threshold.
PeakBins(s) ==
    {i \in 2..(Len(s) - 1) : s[i] > s[i - 1] /\ s[i] > s[i + 1] /\ s[i] > PeakThreshold}

\* C14: getTonality returns min(1, 3 * P / T), P the sum of the magnitudes of
\* the peak bins and T the sum of the magnitudes of all N bins, and 0 when T
\* is 0.
C14_TonalityOverTotalEnergy ==
    (lastOp = "getTonality" /\ ~Absent(frequencyData))
    => LET P == SeqSum([i \in 1..Len(HeldBins) |->
                           IF i \in PeakBins(HeldBins) THEN HeldBins[i] ELSE 0])
           T == SeqSum(HeldBins)
       IN  result = IF T = 0 THEN Zero
                    ELSE Min1(NumDiv(Num(TonalityScale * P, 1), Num(T, 1)))

\* The waveform of the state.
HeldSamples == timeDomainData.data

\* C15: getPitch returns 0 when no candidate period has a strictly positive
\* autocorrelation, in particular for a buffer shorter than
\* 2 * floor(sampleRate / 1000) samples and for an all-silence buffer.
C15_PitchZeroWithoutCorrelation ==
    lastOp = "getPitch"
    => /\ (\A p \in CandidatePeriods(Len(HeldSamples), getSampleRate) :
              Correlation(HeldSamples, p) <= 0)
          => IsZero(result)
       /\ Len(HeldSamples) < 2 * (getSampleRate \div MaxPitchHz) => IsZero(result)
       /\ IsSilence(timeDomainData) => IsZero(result)

\* C15's case: silence in a buffer long enough to have candidate periods.
C15_Witness ==
    /\ lastOp = "getPitch"
    /\ IsSilence(timeDomainData)
    /\ CandidatePeriods(Len(HeldSamples), getSampleRate) # {}
    /\ IsZero(result)

\* C16: the value of getPitch is 0 or a frequency with 50 <= pitch <= 1000.
C16_PitchInSearchRange ==
    lastOp = "getPitch"
    => \/ IsZero(result)
       \/ /\ IsFinite(result)
          /\ MinPitchHz * result.d <= result.n
          /\ result.n <= MaxPitchHz * result.d

\* C17: when getPitch returns sampleRate / p, no integer period from
\* floor(sampleRate / 1000) up to and including
\* min(floor(sampleRate / 50), bufferLength / 2) has a larger autocorrelation
\* than p.
C17_PitchMaximisesCorrelation ==
    (lastOp = "getPitch" /\ ~IsZero(result))
    => \A p \in 1..Len(HeldSamples) :
          result = Num(getSampleRate, p)
          => \A q \in (getSampleRate \div MaxPitchHz)
                        ..Min2(getSampleRate \div MinPitchHz, Len(HeldSamples) \div 2) :
                Correlation(HeldSamples, q) <= Correlation(HeldSamples, p)

\* One envelope sample per complete window of WindowSize samples.
CompleteWindows(td) ==
    [w \in 1..(Len(td) \div WindowSize) |->
        MaxDeviation(td, (w - 1) * WindowSize + 1, w * WindowSize)]

\* min(1, the standard deviation of the envelope / 64), 0 for fewer than 2
\* envelope samples.
ModulationOf(envelopes) ==
    LET len == Len(envelopes)
    IN  IF len < 2 THEN Zero
        ELSE LET total  == SeqSum(envelopes)
                 sqDevs == SeqSum([w \in 1..len |->
                              (len * envelopes[w] - total) * (len * envelopes[w] - total)])
             IN  Min1(NumDiv(NumSqrt(Num(sqDevs, len * len * len)), Num(AMScale, 1)))

\* C18: getAmplitudeModulation takes one envelope sample from each of the
\* floor(M / 64) complete windows of the M samples, the last one included,
\* and returns 0 for lack of windows only when there are fewer than 2.
C18_EveryCompleteWindowCounts ==
    lastOp = "getAmplitudeModulation"
    => result = ModulationOf(CompleteWindows(HeldSamples))

\* The bins filter f's loop visits: `j = lowBin; j < highBin && j < binCount`.
VisitedBins(bin, f, binCount) == bin[f]..(Min2(bin[f + 2], binCount) - 1)

\* C20: in _applyMelFilterbank no weight is computed with a zero denominator,
\* every weight applied lies in [0,1], every filter contributes a finite
\* value, and a filter with lowBin = highBin contributes exactly 0.
C20_NoDegenerateDivision ==
    (lastOp = "getMFCCs" /\ ~Absent(frequencyData))
    => LET binCount == Len(HeldBins)
           bin      == MelBinsOf[binCount, getSampleRate]
       IN  /\ \A f \in 1..numMelFilters :
                LET lowBin    == bin[f]
                    centerBin == bin[f + 1]
                    highBin   == bin[f + 2]
                    out       == MelFilter(HeldBins, lowBin, centerBin, highBin)
                IN  /\ \A j \in VisitedBins(bin, f, binCount) :
                          /\ j < centerBin => centerBin - lowBin # 0
                          /\ j >= centerBin => highBin - centerBin # 0
                          /\ InUnitInterval(Max0(TriangleWeight(j, lowBin, centerBin, highBin)))
                    /\ IsFinite(out)
                    /\ lowBin = highBin => IsZero(out)
           /\ \A c \in 1..Len(result) : IsFinite(result[c])

\* C20's case: the coefficients of a spectrum with energy where one filter has
\* lowBin = centerBin < highBin and visits a bin, and another has
\* lowBin = highBin.
C20_Witness ==
    /\ lastOp = "getMFCCs"
    /\ ~Absent(frequencyData)
    /\ \E c \in 1..Len(result) : ~IsZero(result[c])
    /\ LET bin == MelBinsOf[Len(HeldBins), getSampleRate]
       IN  /\ \E f \in 1..numMelFilters :
                /\ bin[f] = bin[f + 1]
                /\ bin[f + 1] < bin[f + 2]
                /\ VisitedBins(bin, f, Len(HeldBins)) # {}
           /\ \E f \in 1..numMelFilters : bin[f] = bin[f + 2]

\* The scalar fields of a record of getAllFeatures.
ScalarFields ==
    {"rms", "peak", "spectralCentroid", "spectralSpread", "spectralFlux",
     "spectralEntropy", "tonality", "pitch", "amplitudeModulation",
     "frequencyModulation"}

\* C21: when both buffers are absent (null) or empty, getAllFeatures returns
\* a record whose scalar fields are all 0 and whose mfccs are 13 zeros, and
\* leaves the stored previous spectrum unchanged.
C21_AbsentBuffersGiveZeroRecord ==
    [][ ( /\ lastOp' = "getAllFeatures"
          /\ Absent(frequencyData')
          /\ Absent(timeDomainData') )
        => /\ \A f \in ScalarFields : IsZero(result'[f])
           /\ Len(result'.mfccs) = 13
           /\ \A c \in 1..13 : IsZero(result'.mfccs[c])
           /\ prevSpectrum' = prevSpectrum ]_vars

\* C21's case: a record of an analyzer whose engine was never initialised.
C21_Witness ==
    /\ lastOp = "getAllFeatures"
    /\ ~inited
    /\ frequencyData.null
    /\ timeDomainData.null

\* A result that is a raised error, not a number.
IsError(x) == x.k \notin {"num", "nan", "inf"}

\* C22: when the spectrum of a frame has another length than the stored
\* previous spectrum, the flux computation raises an error instead of
\* returning a value.
C22_LengthMismatchFailsLoudly ==
    [][ ( /\ lastOp' \in {"getSpectralFlux", "getFrequencyModulation"}
          /\ ~prevSpectrum.null
          /\ ~Absent(frequencyData')
          /\ Len(frequencyData'.data) # Len(Baseline) )
        => IsError(result') ]_vars

\* x <= y for a finite x >= 0 that may carry a square root and a rational
\* y >= 0, by their squares.
AtMost(x, y) == x.n * x.n * x.rn * y.d * y.d <= y.n * y.n * x.d * x.d * x.rd

\* C30: on a non-empty waveform the rms of getRMS never exceeds the peak of
\* getPeak on the same buffer, and the peak is 0 exactly when the rms is 0.
C30_RmsAtMostPeak ==
    (~Absent(timeDomainData) /\ lastOp \in {"getRMS", "getPeak"})
    => LET rms  == IF lastOp = "getRMS" THEN result ELSE getRMS(timeDomainData)
           peak == IF lastOp = "getPeak" THEN result ELSE getPeak(timeDomainData)
       IN  /\ IsFinite(rms) /\ IsFinite(peak)
           /\ AtMost(rms, peak)
           /\ IsZero(peak) <=> IsZero(rms)

\* C30's case: the rms of a waveform that is silent in some samples and
\* loud in others.
C30_Witness ==
    /\ lastOp = "getRMS"
    /\ ~Absent(timeDomainData)
    /\ ~IsZero(result)
    /\ \E i \in DOMAIN HeldSamples : HeldSamples[i] = Centre

\* C29: after n addPoint calls since the construction or the last clear the
\* trail's draw range is exactly the first min(n, maxPoints) vertices.
C29_DrawRangeIsWhatWasWritten ==
    [][ lastOp' \in {"addPoint", "clear"}
        => toneEvolution'.drawRange =
               [start |-> 0,
                count |-> Num(Min2(toneEvolution'.time, maxPoints), 1)] ]_vars

\* C23: a record of getAllFeatures shares no storage with the analyzer or
\* with another record: a caller's write into a record or its mfccs array
\* changes at most that one record, and not the stored previous spectrum.
C23_RecordsShareNothing ==
    [][ lastOp' = "write"
        => /\ prevSpectrum' = prevSpectrum
           /\ \E i \in 1..Len(held) :
                 \A j \in 1..Len(held) : j # i => View(held[j])' = View(held[j]) ]_vars

\* C23's case: a write into one of two records kept.
C23_Witness ==
    /\ lastOp = "write"
    /\ Len(held) = 2
    /\ \E i \in 1..2 : arrays[records[held[i]].mfccs][1] \in Written

\* C24: at most one requestAnimationFrame chain of `animate` is scheduled
\* at any time, and none once showUploadSection has stopped the animation.
C24_AtMostOneAnimationChain ==
    /\ Cardinality(Chains) <= 1
    /\ lastOp = "showUploadSection" => Chains = {}

\* The engine as a loadFile call that made element e should leave it.
Consistent(e) ==
    /\ engine.mediaElement = e
    /\ engine.source = e
    /\ elements[e].sources = 1
    /\ engine.connected
    /\ engine.duration = Num(elements[e].file, 1)

\* C25: when an AudioEngine.loadFile call resolves, the media element is
\* the one the call made, the source was created from it once and is
\* connected, and the duration is that element's.
C25_ResolvedLoadIsConsistent ==
    [][ lastOp' = "loadedmetadata"
        => \A c \in calls : (c.pc = "metadata" /\ c \notin calls') => Consistent(c.element)' ]_vars

\* C26: AudioEngine.isPlaying is true only while the current media element
\* exists and is playing: loaded, not paused, not at its end.
C26_IsPlayingMeansPlaying ==
    engine.isPlaying
    => /\ engine.mediaElement # 0
       /\ elements[engine.mediaElement].state = "loaded"
       /\ ~elements[engine.mediaElement].paused
       /\ ~elements[engine.mediaElement].ended

\* C27: once no play() promise is pending, App.isPlaying equals
\* AudioEngine.isPlaying.
C27_AppAndEngineAgree ==
    (\A c \in calls : c.pc # "play") => app.isPlaying = engine.isPlaying

\* C28: while AudioProvider has no file loaded (removeFile has run and no
\* loadFile is under way) isPlaying is false and currentTime is 0, whatever
\* play() or media event was pending when removeFile ran.
C28_NoFileMeansStoppedAtZero ==
    (provider.file = 0 /\ \A t \in tasks : t.kind # "loadFile")
    => (~provider.isPlaying /\ provider.currentTime = 0)

====
